---- MODULE Spec2Model ----
(***************************************************************************)
(* A model of the pull-request review tool: the Completion Client          *)
(* (CodeReviewer.review), the two orchestration flows (the direct flow of  *)
(* main.py and ReviewManager.process_review behind github_action.py), the  *)
(* two report formatters and the two delivery sinks.                       *)
(*                                                                         *)
(* Text is a sequence of tokens: "SP" and "NL" are one blank and one line  *)
(* break, "." is a full stop, every other token is a run of non-blank      *)
(* characters (a word or a fixed phrase).  A Python list of strings that   *)
(* the code joins with "\n" is kept as the sequence of its items.          *)
(***************************************************************************)
EXTENDS Integers, Sequences, FiniteSets, TLC

\* ------------------------------------------------------------- bounds
\* The longest changed-file list the File Change Source yields.
MaxFiles == 2
\* Calls of review() made in a row on one client
MaxReviews == 2
\* Passes of the request loop of the MCP server
MaxPasses == 2

\* ------------------------------------------------- program constants
\* code_reviewer.py:26  self.max_retries = 3
max_retries == 3
\* self.retry_delay = 5, in seconds (code_reviewer.py:27)
retry_delay == 5
\* review_manager.py:62 / github_integration.py:92  len(first_para) > 200
SummaryLimit == 200
\* review_manager.py:99 / github_integration.py:133  key_recommendations[:5]
MaxRecommendations == 5

\* ---------------------------------------------------------------- text
Whitespace == {"SP", "NL"}

RECURSIVE LStrip(_)
LStrip(t) ==
    IF t = <<>> THEN <<>>
    ELSE IF Head(t) \in Whitespace THEN LStrip(Tail(t)) ELSE t

RECURSIVE RStrip(_)
RStrip(t) ==
    IF t = <<>> THEN <<>>
    ELSE IF t[Len(t)] \in Whitespace THEN RStrip(SubSeq(t, 1, Len(t) - 1)) ELSE t

\* str.strip()
Strip(t) == RStrip(LStrip(t))

\* Truth value of a Python str
Truthy(t) == t # <<>>

\* str(n) for the small numbers the model prints
NumStr(n) ==
    CASE n = 0 -> "0" [] n = 1 -> "1" [] n = 2 -> "2" [] n = 3 -> "3"
      [] n = 4 -> "4" [] n = 5 -> "5" [] n = 6 -> "6" [] OTHER -> "many"

\* Length in characters of one token
TokLen(tok) ==
    CASE tok \in Whitespace -> 1
      [] tok = "." -> 1
      [] tok = "LongClause" -> 120
      [] tok = "MediumClause" -> 78
      [] OTHER -> 10

RECURSIVE TextLen(_)
TextLen(t) == IF t = <<>> THEN 0 ELSE TokLen(Head(t)) + TextLen(Tail(t))

\* Index of the first i with t[i] = a and t[i+1] = b, or 0
FirstPair(t, a, b) ==
    LET hits == {i \in 1..(Len(t) - 1) : t[i] = a /\ t[i + 1] = b}
    IN  IF hits = {} THEN 0 ELSE CHOOSE i \in hits : \A j \in hits : i <= j

\* review_text.split('\n\n')[0] if '\n\n' in review_text else review_text
FirstPara(t) ==
    LET k == FirstPair(t, "NL", "NL")
    IN  IF k = 0 THEN t ELSE SubSeq(t, 1, k - 1)

\* first_para.split('. ')[0]
FirstSentence(t) ==
    LET k == FirstPair(t, ".", "SP")
    IN  IF k = 0 THEN t ELSE SubSeq(t, 1, k - 1)

\* review_text.split('\n'): the lines of a text
RECURSIVE SplitLines(_)
SplitLines(t) ==
    LET hits == {i \in 1..Len(t) : t[i] = "NL"}
    IN  IF hits = {} THEN <<t>>
        ELSE LET k == CHOOSE i \in hits : \A j \in hits : i <= j
             IN  <<SubSeq(t, 1, k - 1)>> \o SplitLines(SubSeq(t, k + 1, Len(t)))

\* ------------------------------------------------- Completion Client
\* The phrases review() filters (code_reviewer.py:91-95)
NoIssuesPhrases ==
    { <<"No issues found", ".">>,
      <<"No issues found">>,
      <<"Nenhum problema encontrado", ".">>,
      <<"Nenhum problema encontrado">>,
      <<"Sem problemas encontrados">> }

IsNoIssues(content) == Strip(content) \in NoIssuesPhrases

\* What review() returns for a response whose content is a string
PostProcessKeep(content) == content
PostProcess(content) == IF IsNoIssues(content) THEN <<>> ELSE content

AuthErrorText == <<"Erro:", "SP", "Chave de API OpenAI invalida", ".">>
NotFoundErrorText == <<"Erro:", "SP", "O modelo", "SP", "gpt-4", "SP", "nao esta disponivel", ".">>
RateLimitErrorText == <<"Erro:", "SP", "Cota da API OpenAI excedida", ".">>

\* The three except clauses that return at once (code_reviewer.py:100-108)
NoRetryKindsAuthOnly == {"auth"}
NoRetryKinds == {"auth", "notfound", "ratelimit"}

TerminalErrorTextEmpty(kind) == <<>>
TerminalErrorText(kind) ==
    CASE kind = "auth" -> AuthErrorText
      [] kind = "notfound" -> NotFoundErrorText
      [] OTHER -> RateLimitErrorText

\* The string returned after the loop (code_reviewer.py:127)
ExhaustedPrefix == <<"Erro ao realizar revisao de codigo apos", "SP">>
ExhaustedText(last_error) ==
    ExhaustedPrefix \o <<NumStr(max_retries), "SP", "tentativas:", "SP", last_error>>

\* while retry_count < self.max_retries (code_reviewer.py:61)
LoopContinuesOneMore(retry_count) == retry_count <= max_retries
LoopContinues(retry_count) == retry_count < max_retries

\* if retry_count < self.max_retries: await asyncio.sleep(self.retry_delay)
\* (code_reviewer.py:113-115, 121-123)
SleepsAfterAlways(retry_count) == TRUE
SleepsAfter(retry_count) == retry_count < max_retries

\* What str(e) is for a response the try block fails on
NoneStripError == "'NoneType' object has no attribute 'strip'"
FailureText(resp) == IF resp.kind = "ok_none" THEN NoneStripError ELSE resp.msg

\* last_error = e (code_reviewer.py:111, 119)
RecordErrorKeep(last_error, resp) == last_error
RecordError(last_error, resp) == FailureText(resp)

\* One pass of the loop body of review(): the provider answers resp.
\* r is the frame of the call: retry_count and last_error, with the counts of
\* provider calls and sleeps made so far in this call and the kind and the
\* str(e) of the last answer.
ReviewAttempt(r, resp) ==
    LET called == [r EXCEPT !.calls = @ + 1, !.last_kind = resp.kind,
                            !.last_msg = FailureText(resp)]
    IN  IF resp.kind = "ok"
        THEN [called EXCEPT !.returned = TRUE, !.result = PostProcess(resp.content)]
        ELSE IF resp.kind \in NoRetryKinds
        THEN [called EXCEPT !.returned = TRUE, !.result = TerminalErrorText(resp.kind)]
        ELSE \* APIConnectionError, or any other Exception: content.strip()
             \* raises one when the content is None
             LET rc == r.retry_count + 1
                 le == RecordError(r.last_error, resp)
                 slept == SleepsAfter(rc)
                 next == [called EXCEPT !.retry_count = rc, !.last_error = le,
                                        !.sleeps = IF slept THEN @ + 1 ELSE @]
             IN  IF LoopContinues(rc)
                 THEN next
                 ELSE [next EXCEPT !.returned = TRUE, !.result = ExhaustedText(le)]

\* The frame of a call of review() before its first attempt (lines 58-59)
NewReview ==
    [retry_count |-> 0, last_error |-> "None", calls |-> 0, sleeps |-> 0,
     last_kind |-> "none", last_msg |-> "", returned |-> FALSE, result |-> <<>>]

\* What CodeReviewer.__init__ assigns (code_reviewer.py:25-27); os.getenv
\* gives the default model name, OPENAI_MODEL being unset
NewClient == [model |-> "gpt-4", max_retries |-> max_retries, retry_delay |-> retry_delay]
\* No CodeReviewer has been built yet
NoClient == [model |-> "", max_retries |-> 0, retry_delay |-> 0]

\* The false value read_request gives for an empty request
NoRequest == [fn |-> "", has_call |-> FALSE, has_params |-> FALSE, empty |-> TRUE]

\* The request loop of CodeReviewMCPServer.start before its first pass: repo
\* says whether self.repo is set, request is the request being served
\* (NoRequest between two passes), reads counts the non-empty requests read,
\* empties the empty ones, readFails the calls of read_request that raised,
\* handled logs what handle_completion did with each request, written logs
\* each response written with the number of the request it answers (0: none
\* was read), writeFails counts the writes of the current pass that raised
NewServer(repo) ==
    [repo |-> repo, request |-> NoRequest, reads |-> 0, empties |-> 0, readFails |-> 0,
     handled |-> <<>>, response |-> <<>>, written |-> <<>>, writeFails |-> 0]
\* No server is running
NoServer == NewServer(FALSE)

\* ------------------------------------------------------ the formatters
\* One item of the list a formatter joins with "\n"
Item(t, file, text) == [t |-> t, file |-> file, text |-> text]

TitleItem == Item("title", "", <<"# Revisao de Codigo", "NL">>)
RuleItem == Item("rule", "", <<"---", "NL">>)
SummaryTitleItem == Item("summary_title", "", <<"## Resumo por Arquivo", "NL">>)
RecTitleItem == Item("rec_title", "", <<"## Principais Recomendacoes", "NL">>)
FooterItems ==
    << Item("footer", "", <<"NL", "---", "NL">>),
       Item("footer", "", <<"Analise gerada automaticamente", ".">>) >>

\* f"Analisei {n} arquivo(s) neste PR. ..."
HeaderItem(n) ==
    Item("header", "", <<"Analisei", "SP", NumStr(n), "SP", "arquivo(s) neste PR", ".">>)

\* path.split('/')[-1]
BaseName(path) == path[Len(path)]

\* Tokens whose lower case contains 'linha' or 'line'
LineTokens == {"Linha", "linha", "line", "cmdline:"}
\* Tokens that hold one of the digits 1-9
DigitTokens == {"1", "2", "3", "4", "5", "6", "10", "gpt-4"}
\* Tokens whose lower case contains one of the twelve suggestion words
SuggestTokens == {"considere validar a entrada", "Sugiro extrair a funcao", "problema"}

HasToken(line, S) == \E i \in 1..Len(line) : line[i] \in S

\* The test of review_manager.py:84-91 and github_integration.py:118-125
\* ('or' binds weaker than 'and')
IsRecommendationLine(line) ==
    \/ HasToken(line, LineTokens)
    \/ (HasToken(line, DigitTokens) /\ HasToken(line, SuggestTokens))

\* The recommendation items one review contributes, in line order
RECURSIVE RecsOfLines(_, _)
RecsOfLines(file, lines) ==
    IF lines = <<>> THEN <<>>
    ELSE (IF IsRecommendationLine(Head(lines))
          THEN <<Item("recommendation", file, Strip(Head(lines)))>>
          ELSE <<>>) \o RecsOfLines(file, Tail(lines))

RECURSIVE KeyRecommendations(_)
KeyRecommendations(reviews) ==
    IF reviews = <<>> THEN <<>>
    ELSE RecsOfLines(BaseName(Head(reviews).file_path), SplitLines(Head(reviews).review))
         \o KeyRecommendations(Tail(reviews))

\* The fixed lines of review_manager.py:102-107
DefaultRecommendations ==
    << Item("default_rec", "", <<"Mantenha a consistencia dos padroes de codigo no projeto">>),
       Item("default_rec", "", <<"Considere adicionar testes para novas funcionalidades">>),
       Item("default_rec", "", <<"Verifique tratamento de erros e casos extremos">>),
       Item("default_rec", "", <<"Documente interfaces publicas e APIs importantes">>) >>

\* The fixed lines of github_integration.py:136-141
DefaultRecommendationsDirect ==
    << Item("default_rec", "", <<"Mantenha a consistencia nos padroes de codigo">>),
       Item("default_rec", "", <<"Adicione testes para novas funcionalidades">>),
       Item("default_rec", "", <<"Verifique tratamento de erros e casos extremos">>),
       Item("default_rec", "", <<"Documente interfaces publicas e APIs importantes">>) >>

\* key_recommendations[:5], or the fixed four lines
RecommendationItems(reviews, defaults) ==
    LET recs == KeyRecommendations(reviews)
    IN  IF recs # <<>>
        THEN SubSeq(recs, 1, IF Len(recs) < MaxRecommendations THEN Len(recs)
                                ELSE MaxRecommendations)
        ELSE defaults

\* The three items of one detailed section
SectionItems(review) ==
    << Item("section_title", BaseName(review.file_path), <<>>),
       Item("section_body", BaseName(review.file_path), review.review \o <<"NL">>),
       RuleItem >>

\* The summary point of one review
SummaryTextWholePara(review_text) == FirstPara(review_text)
SummaryText(review_text) ==
    LET first_para == FirstPara(review_text)
    IN  IF TextLen(first_para) > SummaryLimit
        THEN FirstSentence(first_para) \o <<".">>
        ELSE first_para

BulletItem(review) ==
    Item("bullet", BaseName(review.file_path), SummaryText(review.review))

RECURSIVE DetailedItems(_)
DetailedItems(reviews) ==
    IF reviews = <<>> THEN <<>>
    ELSE SectionItems(Head(reviews)) \o DetailedItems(Tail(reviews))

RECURSIVE SummaryItems(_)
SummaryItems(reviews) ==
    IF reviews = <<>> THEN <<>>
    ELSE <<BulletItem(Head(reviews))>> \o SummaryItems(Tail(reviews))

\* The list both formatters build after the header
ReportBody(reviews, detailed, defaults) ==
    (IF detailed THEN DetailedItems(reviews)
     ELSE <<SummaryTitleItem>> \o SummaryItems(reviews))
    \o <<RecTitleItem>> \o RecommendationItems(reviews, defaults) \o FooterItems

\* ReviewManager.format_review_report(reviews, total_files)
HeaderCountOfReviews(reviews, total_files) == Len(reviews)
HeaderCount(reviews, total_files) == total_files

format_review_report(reviews, total_files, detailed) ==
    <<TitleItem, HeaderItem(HeaderCount(reviews, total_files))>>
    \o ReportBody(reviews, detailed, DefaultRecommendations)

\* GitHubIntegration.format_review(reviews)
format_review(reviews, detailed) ==
    <<TitleItem, HeaderItem(Len(reviews))>>
    \o ReportBody(reviews, detailed, DefaultRecommendationsDirect)

\* The document process_review returns for an empty list (review_manager.py:132)
NoFilesDoc == <<TitleItem, Item("no_files", "", <<"Nenhum arquivo para revisar neste PR", ".">>)>>

\* The document process_review returns from its except clause (lines 152-156)
ErrorDocEmpty(msg) == <<>>
ErrorDoc(msg) ==
    << Item("error_title", "", <<"# Erro na Revisao", "NL">>),
       Item("error_body", "",
            <<"Ocorreu um erro durante o processo de revisao:", "SP",
              "Error during review process:", "SP", msg>>) >>

\* ------------------------------------------------------ the environment
\* The changed files, by position: two of them share a base name.
PathOf(i) ==
    CASE i = 1 -> <<"src", "app.py">>
      [] i = 2 -> <<"lib", "app.py">>
      [] i = 3 -> <<"README.md">>
      [] OTHER -> <<"docs", "guide.md">>

FileList(n) == [i \in 1..n |-> PathOf(i)]

\* Review bodies the provider may answer with
RealReview == <<"Linha", "SP", "10", ":", "SP", "considere validar a entrada", ".">>
PlainReview == <<"Codigo bem estruturado", ".">>
BlankReview == <<"SP", "NL">>

Padded(phrase) == <<"SP">> \o phrase \o <<"NL">>

\* A phrase of the list in another casing, and one followed by more text
LowerCasePhrase == <<"no issues found", ".">>
PhraseThenText == <<"No issues found", ".", "SP", "Codigo bem estruturado", ".">>

ProviderContents ==
    {RealReview, BlankReview, LowerCasePhrase, PhraseThenText}
    \cup NoIssuesPhrases \cup {Padded(p) : p \in NoIssuesPhrases}

\* str(e) of the errors the provider call may raise
ErrorMsgs == {"Connection error.", "Request timed out."}

\* response.choices[0].message.content being None: the one content that is
\* not a string, written as a text that no string of the model equals
NoneContent == <<"<None>">>

Response(kind, content, msg) == [kind |-> kind, content |-> content, msg |-> msg]

\* What one chat.completions.create call may do: answer with a content,
\* answer with content None, or raise one of the five classes of error.
ProviderResponses ==
    {Response("ok", c, "") : c \in ProviderContents}
    \cup {Response("ok_none", NoneContent, "")}
    \cup {Response(k, <<>>, "rejected") : k \in {"auth", "notfound", "ratelimit"}}
    \cup {Response(k, <<>>, m) : k \in {"conn", "other"}, m \in ErrorMsgs}

\* os.getenv('GITHUB_REPOSITORY', '').split('/') for the variable unset, set
\* to owner/name, set with an empty owner or name, and set without a slash
NoRepository == <<"">>
OwnerAndName == <<"octo", "magic-pipe">>
RepoValues ==
    {NoRepository, OwnerAndName, <<"", "magic-pipe">>, <<"octo", "">>, <<"magic-pipe">>}

\* The environment variables the program reads, each set or unset (the
\* repository by what its split yields)
Environments ==
    [OPENAI_API_KEY : BOOLEAN, GITHUB_TOKEN : BOOLEAN, PR_NUMBER : BOOLEAN,
     GITHUB_REPOSITORY : RepoValues, PR_SHAS : BOOLEAN,
     USE_GITHUB_ACTION : BOOLEAN, USE_MCP : BOOLEAN, DETAILED_REVIEWS : BOOLEAN]

\* The two scripts that can be run (each ends in asyncio.run(main()))
EntryPoints == {"main.py", "github_action.py"}

\* ------------------------------------------------------------ the state
VARIABLES
    entry,          \* the script that was started
    env,            \* its environment
    client,         \* the attributes of the CodeReviewer, once built
    server,         \* the request loop of the MCP server
    pc,             \* where the run is
    flow,           \* "direct" (run_code_review), "action" (process_review)
                    \* or "mcp" (the server)
    files,          \* changed_files
    idx,            \* position of the loop over changed_files
    reviews,        \* the list of results the loop builds
    rev,            \* the frame of the current (or last) call of review()
    report,         \* the formatted report
    outcome,        \* what process_review / run_code_review returned
    exitCode,       \* the process's exit code, -1 while it runs
    calls,          \* completion requests sent in the run
    fetchCalls,     \* calls of the File Change Source
    forgeRequests,  \* HTTP requests sent to the forge
    sinkCalls,      \* the calls of post_review_comment: text and result
    fetch,          \* how the File Change Source answered
    returns         \* per file handled so far, what its review came to

vars == <<entry, env, client, server, pc, flow, files, idx, reviews, rev, report, outcome,
          exitCode, calls, fetchCalls, forgeRequests, sinkCalls, fetch, returns>>

NoOutcome == [type |-> "none", success |-> FALSE, review_text |-> <<>>]
\* The dict process_review returns
Dict(success, text) == [type |-> "dict", success |-> success, review_text |-> text]
\* The bool run_code_review returns
Bool(success) == [type |-> "bool", success |-> success, review_text |-> <<>>]

Init ==
    /\ entry \in EntryPoints
    /\ env \in Environments
    \* the runner sets GITHUB_REPOSITORY to owner/name, or it is absent
    /\ env.GITHUB_REPOSITORY \in {NoRepository, OwnerAndName}
    \* USE_GITHUB_ACTION is read by main.py alone, USE_MCP by github_action.py
    /\ (entry = "github_action.py" => ~env.USE_GITHUB_ACTION)
    /\ (env.USE_MCP => (entry = "github_action.py" \/ env.USE_GITHUB_ACTION))
    /\ client = NoClient
    /\ server = NoServer
    /\ pc = "start"
    /\ flow = "none"
    /\ files = <<>>
    /\ idx = 0
    /\ reviews = <<>>
    /\ rev = NewReview
    /\ report = <<>>
    /\ outcome = NoOutcome
    /\ exitCode = -1
    /\ calls = 0
    /\ fetchCalls = 0
    /\ forgeRequests = 0
    /\ sinkCalls = <<>>
    /\ fetch = "none"
    /\ returns = <<>>

\* ----------------------------------------------------------- operations
\* sys.exit(code), or falling off the end of main() with code 0
Exit(code) ==
    /\ pc' = "exited"
    /\ exitCode' = code

\* CodeReviewer.__init__ raises ValueError when the key is unset
ConstructorNeverRaises(e) == FALSE
ConstructorRaises(e) == ~e.OPENAI_API_KEY

\* self.repo_owner and self.repo_name: split('/')[0] and split('/')[-1]
repo_owner(e) == e.GITHUB_REPOSITORY[1]
repo_name(e) == e.GITHUB_REPOSITORY[Len(e.GITHUB_REPOSITORY)]

\* all([github_token, repo_owner, repo_name, pr_number])
is_configured_token_only(e) == e.GITHUB_TOKEN
is_configured(e) ==
    e.GITHUB_TOKEN /\ repo_owner(e) # "" /\ repo_name(e) # "" /\ e.PR_NUMBER

\* The checks main() of main.py makes before anything else (lines 71-84)
MainChecksPass(e) == e.PR_NUMBER /\ e.GITHUB_TOKEN /\ e.OPENAI_API_KEY

\* main() of main.py up to the call of the flow it selects
Main ==
    /\ pc = "start"
    /\ entry = "main.py"
    /\ IF ~MainChecksPass(env)
       THEN Exit(1) /\ UNCHANGED <<flow, client>>
       ELSE IF env.USE_GITHUB_ACTION
       THEN pc' = "action_main" /\ UNCHANGED <<exitCode, flow, client>>
       ELSE IF ConstructorRaises(env)
       THEN Exit(1) /\ UNCHANGED <<flow, client>>
       ELSE /\ pc' = "run_code_review" /\ flow' = "direct" /\ UNCHANGED exitCode
            /\ client' = NewClient
    /\ UNCHANGED <<entry, env, server, files, idx, reviews, rev, report, outcome,
                   calls, fetchCalls, forgeRequests, sinkCalls, fetch, returns>>

\* main() of github_action.py up to the call of process_review or of the
\* server: ReviewManager() builds LLMReviewer(), which builds CodeReviewer()
ActionMain ==
    /\ \/ pc = "action_main"
       \/ pc = "start" /\ entry = "github_action.py"
    /\ IF env.USE_MCP
       THEN pc' = "run_mcp_server" /\ UNCHANGED <<exitCode, flow, client>>
       ELSE IF ConstructorRaises(env)
       THEN Exit(1) /\ UNCHANGED <<flow, client>>
       ELSE /\ pc' = "process_review" /\ flow' = "action" /\ UNCHANGED exitCode
            /\ client' = NewClient
    /\ UNCHANGED <<entry, env, server, files, idx, reviews, rev, report, outcome,
                   calls, fetchCalls, forgeRequests, sinkCalls, fetch, returns>>

\* run_mcp_server up to the request loop of start(): CodeReviewMCPServer()
\* builds CodeReviewer(), then Repo(repo_path) is opened; either may raise
RunMcpServer ==
    /\ pc = "run_mcp_server"
    /\ \E repo_ok \in BOOLEAN :
         IF ConstructorRaises(env)
         THEN Exit(1) /\ UNCHANGED <<flow, client>>
         ELSE IF ~repo_ok
         THEN Exit(1) /\ flow' = flow /\ client' = NewClient
         ELSE /\ pc' = "serving" /\ flow' = "mcp" /\ UNCHANGED exitCode
              /\ client' = NewClient
    /\ UNCHANGED <<entry, env, server, files, idx, reviews, rev, report, outcome,
                   calls, fetchCalls, forgeRequests, sinkCalls, fetch, returns>>

\* LLMReviewer.get_changed_files with an initialised repository: diff_ok says
\* whether repo.commit(head).diff(base) returns, n how many files it lists
get_changed_files(e, diff_ok, n) ==
    IF ~e.PR_SHAS THEN <<>>
    ELSE IF ~diff_ok THEN <<>>
    ELSE FileList(n)

\* if not changed_files
IsEmptyList(l) == l = <<>>

\* The dict returned for an empty list (review_manager.py:130-133)
NoFilesOutcome == Dict(TRUE, NoFilesDoc)

\* process_review from its start to the loop of process_changes
ProcessReviewFetch ==
    /\ pc = "process_review"
    /\ \E repo_ok \in BOOLEAN, diff_ok \in BOOLEAN, n \in 0..MaxFiles :
         IF ~repo_ok
         THEN \* Repo(repo_path) raises: the except clause of process_review
              /\ outcome' = Dict(FALSE, ErrorDoc("repository not found"))
              /\ pc' = "returned"
              /\ UNCHANGED <<files, idx, fetchCalls, fetch>>
         ELSE LET changed == get_changed_files(env, diff_ok, n)
              IN  /\ fetchCalls' = fetchCalls + 1
                  /\ fetch' = IF ~env.PR_SHAS \/ ~diff_ok THEN "failed" ELSE "listed"
                  /\ IF IsEmptyList(changed)
                     THEN /\ outcome' = NoFilesOutcome
                          /\ pc' = "returned"
                          /\ UNCHANGED <<files, idx>>
                     ELSE /\ files' = changed
                          /\ idx' = 1
                          /\ pc' = "next_file"
                          /\ UNCHANGED outcome
    /\ UNCHANGED <<entry, env, client, server, flow, reviews, rev, report, exitCode, calls,
                   forgeRequests, sinkCalls, returns>>

\* The result of one file: a dict of the list reviews
Result(path, text) == [file_path |-> path, review |-> text]

\* The argument f"{head_sha}:{file_path}" of repo.git.show, one token per path
PathStr(path) ==
    CASE path = <<"src", "app.py">> -> "HEAD_SHA:src/app.py"
      [] path = <<"lib", "app.py">> -> "HEAD_SHA:lib/app.py"
      [] path = <<"README.md">> -> "HEAD_SHA:README.md"
      [] OTHER -> "HEAD_SHA:docs/guide.md"

\* str(e) of a failing repo.git.show when the command itself failed: the
\* message quotes the command line
GitShowError(path) ==
    <<"Cmd('git') failed due to: exit code(128)", "NL",
      "cmdline:", "SP", "git show", "SP", PathStr(path)>>

\* str(e) of another exception raised under the try of the loop
OtherShowError == <<"[Errno 12] Cannot allocate memory">>

\* What str(e) may be in the except clause of the loop
ShowErrors(path) == {GitShowError(path), OtherShowError}

\* The result appended by the except clause of the loop (llm_reviewer.py:81-86)
ErrorResultBlank(path, msg) == Result(path, <<>>)
ErrorResult(path, msg) == Result(path, <<"Error reviewing file:", "SP">> \o msg)

\* if review.strip(): reviews.append(...)   (llm_reviewer.py:74-78)
KeepNonBlankFront(l, path, text) ==
    IF Truthy(Strip(text)) THEN <<Result(path, text)>> \o l ELSE l
KeepNonBlank(l, path, text) ==
    IF Truthy(Strip(text)) THEN Append(l, Result(path, text)) ELSE l

\* reviews.append(...) of the direct flow (main.py:44-47)
KeepDirectTwice(l, path, text) == Append(Append(l, Result(path, text)), Result(path, text))
KeepDirect(l, path, text) == Append(l, Result(path, text))

\* After the last file the loop ends and the caller formats
AfterFileStops(i) == "format"
AfterFile(i) == IF i < Len(files) THEN "next_file" ELSE "format"

\* What one file's review came to: raised says the loop's except clause ran,
\* sentinel that the provider's answer was a no-issues phrase
Return(path, raised, sentinel, text) ==
    [file_path |-> path, raised |-> raised, sentinel |-> sentinel, text |-> text]

\* One file of process_changes up to its call of review(): show_ok says
\* whether repo.git.show returns the content, msg what the exception says
\* when it does not
ProcessFile ==
    /\ pc = "next_file"
    /\ flow = "action"
    /\ \E show_ok \in BOOLEAN, msg \in ShowErrors(files[idx]) :
         IF show_ok
         THEN /\ rev' = NewReview
              /\ pc' = "review"
              /\ UNCHANGED <<reviews, idx, returns>>
         ELSE /\ reviews' = Append(reviews, ErrorResult(files[idx], msg))
              /\ returns' = Append(returns, Return(files[idx], TRUE, FALSE,
                                       ErrorResult(files[idx], msg).review))
              /\ pc' = AfterFile(idx)
              /\ idx' = idx + 1
              /\ rev' = rev
    /\ UNCHANGED <<entry, env, client, server, flow, files, report, outcome, exitCode, calls,
                   fetchCalls, forgeRequests, sinkCalls, fetch>>

\* One file of the loop of run_code_review up to its call of review()
DirectFile ==
    /\ pc = "next_file"
    /\ flow = "direct"
    /\ rev' = NewReview
    /\ pc' = "review"
    /\ UNCHANGED <<entry, env, client, server, flow, files, idx, reviews, report, outcome,
                   exitCode, calls, fetchCalls, forgeRequests, sinkCalls, fetch,
                   returns>>

\* One completion request of review() and what follows it up to the next
\* request: the retry bookkeeping and sleep or, when review() returns, the
\* caller's storing of the result
ProviderCall ==
    /\ pc = "review"
    /\ \E resp \in ProviderResponses :
         LET r == ReviewAttempt(rev, resp)
         IN  /\ rev' = r
             /\ calls' = calls + 1
             /\ IF r.returned
                THEN /\ reviews' = IF flow = "action"
                                   THEN KeepNonBlank(reviews, files[idx], r.result)
                                   ELSE KeepDirect(reviews, files[idx], r.result)
                     /\ returns' = Append(returns,
                           Return(files[idx], FALSE,
                                  resp.kind = "ok" /\ Strip(resp.content) \in NoIssuesPhrases,
                                  r.result))
                     /\ pc' = AfterFile(idx)
                     /\ idx' = idx + 1
                ELSE UNCHANGED <<reviews, returns, pc, idx>>
    /\ UNCHANGED <<entry, env, client, server, flow, files, report, outcome, exitCode,
                   fetchCalls, forgeRequests, sinkCalls, fetch>>

\* What session.post may do: answer 201, answer another status, or raise
PostResults == {"created", "refused", "raises"}

\* report = self.format_review_report(reviews, len(changed_files))
FormatConsuming ==
    /\ pc = "format"
    /\ flow = "action"
    /\ report' = format_review_report(reviews, Len(files), env.DETAILED_REVIEWS)
    /\ reviews' = <<>>
    /\ pc' = "deliver"
    /\ UNCHANGED <<entry, env, client, server, flow, files, idx, rev, outcome, exitCode,
                   calls, fetchCalls, forgeRequests, sinkCalls, fetch, returns>>
Format ==
    /\ pc = "format"
    /\ flow = "action"
    /\ report' = format_review_report(reviews, Len(files), env.DETAILED_REVIEWS)
    /\ pc' = "deliver"
    /\ UNCHANGED <<entry, env, client, server, flow, files, idx, reviews, rev, outcome, exitCode,
                   calls, fetchCalls, forgeRequests, sinkCalls, fetch, returns>>

\* if self.github_token  (review_manager.py:143)
ShouldPost(e) == e.GITHUB_TOKEN

\* The dict process_review returns after the post (review_manager.py:146-149)
DeliveredAlwaysTrue(success, text) == Dict(TRUE, text)
Delivered(success, text) == Dict(success, text)

\* One call of post_review_comment: the text handed over and how it ended
SinkCall(text, result) == [text |-> text, result |-> result]

\* process_review from the post of the report to its return
Deliver ==
    /\ pc = "deliver"
    /\ flow = "action"
    /\ pc' = "returned"
    /\ IF ~ShouldPost(env)
       THEN /\ outcome' = Delivered(TRUE, report)
            /\ UNCHANGED <<sinkCalls, forgeRequests>>
       ELSE IF ~is_configured(env)
       THEN /\ outcome' = Delivered(FALSE, report)
            /\ sinkCalls' = Append(sinkCalls, SinkCall(report, "false"))
            /\ UNCHANGED forgeRequests
       ELSE /\ forgeRequests' = forgeRequests + 1
            /\ \E res \in PostResults :
                 CASE res = "created" ->
                        /\ outcome' = Delivered(TRUE, report)
                        /\ sinkCalls' = Append(sinkCalls, SinkCall(report, "true"))
                   [] res = "refused" ->
                        /\ outcome' = Delivered(FALSE, report)
                        /\ sinkCalls' = Append(sinkCalls, SinkCall(report, "false"))
                   [] OTHER -> \* the except clause of process_review
                        /\ outcome' = Dict(FALSE, ErrorDoc("Cannot connect to host"))
                        /\ sinkCalls' = Append(sinkCalls, SinkCall(report, "raised"))
    /\ UNCHANGED <<entry, env, client, server, flow, files, idx, reviews, rev, report, exitCode,
                   calls, fetchCalls, fetch, returns>>

\* What session.get of the pull request's files may do: answer 200 with the
\* list, answer another status, or raise
GetResults == {"ok", "not_ok", "raises"}

\* if not changed_files: return True   (main.py:17-19)
EmptyListResultFalse == Bool(FALSE)
EmptyListResult == Bool(TRUE)

\* run_code_review from its start to its loop: get_pr_files
DirectFetch ==
    /\ pc = "run_code_review"
    /\ fetchCalls' = fetchCalls + 1
    /\ IF ~is_configured(env)
       THEN /\ outcome' = EmptyListResult
            /\ fetch' = "unconfigured"
            /\ pc' = "returned"
            /\ UNCHANGED <<files, idx, forgeRequests>>
       ELSE /\ forgeRequests' = forgeRequests + 1
            /\ \E res \in GetResults, n \in 0..MaxFiles :
                 LET changed == IF res = "ok" THEN FileList(n) ELSE <<>>
                 IN  IF res = "raises"
                     THEN \* the except clause of run_code_review
                          /\ outcome' = Bool(FALSE)
                          /\ fetch' = "raised"
                          /\ pc' = "returned"
                          /\ UNCHANGED <<files, idx>>
                     ELSE /\ fetch' = IF res = "ok" THEN "listed" ELSE "failed"
                          /\ IF IsEmptyList(changed)
                             THEN /\ outcome' = EmptyListResult
                                  /\ pc' = "returned"
                                  /\ UNCHANGED <<files, idx>>
                             ELSE /\ files' = changed
                                  /\ idx' = 1
                                  /\ pc' = "next_file"
                                  /\ UNCHANGED outcome
    /\ UNCHANGED <<entry, env, client, server, flow, reviews, rev, report, exitCode, calls,
                   sinkCalls, returns>>

\* review_comment = github.format_review(reviews)
DirectFormat ==
    /\ pc = "format"
    /\ flow = "direct"
    /\ report' = format_review(reviews, env.DETAILED_REVIEWS)
    /\ pc' = "deliver"
    /\ UNCHANGED <<entry, env, client, server, flow, files, idx, reviews, rev, outcome, exitCode,
                   calls, fetchCalls, forgeRequests, sinkCalls, fetch, returns>>

\* run_code_review from the post of the comment to its return
DirectDeliver ==
    /\ pc = "deliver"
    /\ flow = "direct"
    /\ pc' = "returned"
    /\ IF ~is_configured(env)
       THEN /\ outcome' = Bool(FALSE)
            /\ sinkCalls' = Append(sinkCalls, SinkCall(report, "false"))
            /\ UNCHANGED forgeRequests
       ELSE /\ forgeRequests' = forgeRequests + 1
            /\ \E res \in PostResults :
                 /\ outcome' = Bool(res = "created")
                 /\ sinkCalls' = Append(sinkCalls, SinkCall(report,
                        CASE res = "created" -> "true"
                          [] res = "refused" -> "false"
                          [] OTHER -> "raised"))
    /\ UNCHANGED <<entry, env, client, server, flow, files, idx, reviews, rev, report, exitCode,
                   calls, fetchCalls, fetch, returns>>

\* The truth value Python gives what the flow returned: a dict with two keys
\* is true whatever it holds
PyTruth(o) == IF o.type = "dict" THEN TRUE ELSE o.success

\* if not success: sys.exit(1)   (main.py:102-104, github_action.py:32-34)
ExitCodeFor(o) == IF ~PyTruth(o) THEN 1 ELSE 0

\* The end of main() of either script, once the flow has returned
MainExitHangs ==
    /\ pc = "returned"
    /\ UNCHANGED <<entry, env, client, server, pc, flow, files, idx, reviews, rev, report, outcome,
                   exitCode, calls, fetchCalls, forgeRequests, sinkCalls, fetch,
                   returns>>
MainExit ==
    /\ pc = "returned"
    /\ Exit(ExitCodeFor(outcome))
    /\ UNCHANGED <<entry, env, client, server, flow, files, idx, reviews, rev, report, outcome,
                   calls, fetchCalls, forgeRequests, sinkCalls, fetch, returns>>

Next ==
    \/ Main
    \/ ActionMain
    \/ RunMcpServer
    \/ ProcessReviewFetch
    \/ ProcessFile
    \/ DirectFile
    \/ ProviderCall
    \/ Format
    \/ Deliver
    \/ DirectFetch
    \/ DirectFormat
    \/ DirectDeliver
    \/ MainExit

Spec == Init /\ [][Next]_vars

\* ------------------------------------------- the post operation alone
\* Texts handed to post_review_comment
PostedTexts ==
    { format_review_report(<<Result(PathOf(1), RealReview)>>, 1, FALSE),
      format_review(<<Result(PathOf(1), PlainReview)>>, TRUE),
      NoFilesDoc }

\* A ReviewManager (flow "action") or a GitHubIntegration (flow "direct")
\* built under any environment, about to be asked to post a text
PostInit ==
    /\ entry \in EntryPoints
    /\ env \in Environments
    /\ env.OPENAI_API_KEY /\ env.PR_SHAS /\ ~env.DETAILED_REVIEWS
    /\ ~env.USE_GITHUB_ACTION /\ ~env.USE_MCP
    /\ client = NewClient
    /\ server = NoServer
    /\ pc = "post"
    /\ flow = (IF entry = "main.py" THEN "direct" ELSE "action")
    /\ files = <<>>
    /\ idx = 0
    /\ reviews = <<>>
    /\ rev = NewReview
    /\ report \in PostedTexts
    /\ outcome = NoOutcome
    /\ exitCode = -1
    /\ calls = 0
    /\ fetchCalls = 0
    /\ forgeRequests = 0
    /\ sinkCalls = <<>>
    /\ fetch = "none"
    /\ returns = <<>>

\* post_review_comment(content) of either class (review_manager.py:16-30,
\* github_integration.py:26-36)
PostReviewComment ==
    /\ pc = "post"
    /\ pc' = "posted"
    /\ IF ~is_configured(env)
       THEN /\ sinkCalls' = Append(sinkCalls, SinkCall(report, "false"))
            /\ UNCHANGED forgeRequests
       ELSE /\ forgeRequests' = forgeRequests + 1
            /\ \E res \in PostResults :
                 sinkCalls' = Append(sinkCalls, SinkCall(report,
                        CASE res = "created" -> "true"
                          [] res = "refused" -> "false"
                          [] OTHER -> "raised"))
    /\ UNCHANGED <<entry, env, client, server, flow, files, idx, reviews, rev, report, outcome,
                   exitCode, calls, fetchCalls, fetch, returns>>

PostNext == PostReviewComment

PostSpec == PostInit /\ [][PostNext]_vars

\* ------------------------------------------------- review() alone
\* A CodeReviewer built with the key set, about to be asked for a review
ReviewInit ==
    /\ entry = "main.py"
    /\ env \in Environments
    /\ env.OPENAI_API_KEY /\ env.GITHUB_TOKEN /\ env.PR_NUMBER /\ env.PR_SHAS
    /\ env.GITHUB_REPOSITORY = OwnerAndName
    /\ ~env.USE_GITHUB_ACTION /\ ~env.USE_MCP /\ ~env.DETAILED_REVIEWS
    /\ client = NewClient
    /\ server = NoServer
    /\ pc = "review"
    /\ flow = "none"
    /\ files = <<>>
    /\ idx = 0
    /\ reviews = <<>>
    /\ rev = NewReview
    /\ report = <<>>
    /\ outcome = NoOutcome
    /\ exitCode = -1
    /\ calls = 0
    /\ fetchCalls = 0
    /\ forgeRequests = 0
    /\ sinkCalls = <<>>
    /\ fetch = "none"
    /\ returns = <<>>

\* One pass of the loop of review(): a completion request and what follows
\* it, up to the next request or the return; returns logs what the call
\* returned
ReviewRequest ==
    /\ pc = "review"
    /\ \E resp \in ProviderResponses :
         LET r == ReviewAttempt(rev, resp)
         IN  /\ rev' = r
             /\ calls' = calls + 1
             /\ IF r.returned
                THEN /\ returns' = Append(returns,
                           Return(PathOf(Len(returns) + 1), FALSE,
                                  resp.kind = "ok" /\ Strip(resp.content) \in NoIssuesPhrases,
                                  r.result))
                     /\ pc' = "reviewed"
                ELSE UNCHANGED <<returns, pc>>
    /\ UNCHANGED <<entry, env, client, server, flow, files, idx, reviews, report, outcome,
                   exitCode, fetchCalls, forgeRequests, sinkCalls, fetch>>

\* The same client is asked for another review (lines 58-59 run again)
ReviewAgainKeepsCount ==
    /\ pc = "reviewed"
    /\ Len(returns) < MaxReviews
    /\ rev' = [NewReview EXCEPT !.retry_count = rev.retry_count]
    /\ pc' = "review"
    /\ UNCHANGED <<entry, env, client, server, flow, files, idx, reviews, report, outcome,
                   exitCode, calls, fetchCalls, forgeRequests, sinkCalls, fetch,
                   returns>>
ReviewAgain ==
    /\ pc = "reviewed"
    /\ Len(returns) < MaxReviews
    /\ rev' = NewReview
    /\ pc' = "review"
    /\ UNCHANGED <<entry, env, client, server, flow, files, idx, reviews, report, outcome,
                   exitCode, calls, fetchCalls, forgeRequests, sinkCalls, fetch,
                   returns>>

ReviewNext ==
    \/ ReviewRequest
    \/ ReviewAgain

ReviewSpec == ReviewInit /\ [][ReviewNext]_vars

\* --------------------------------------------- the formatters alone
\* Review texts by the shape of their first paragraph: two paragraphs, a
\* paragraph of 243 characters in two sentences, the same followed by a
\* second paragraph, 241 characters without a sentence end, and exactly
\* 200 characters
TwoParas == PlainReview \o <<"NL", "NL", "Detalhes adicionais", ".">>
LongPara == <<"LongClause", ".", "SP", "LongClause", ".">>
LongThenBreak == LongPara \o <<"NL", "NL", "Detalhes adicionais", ".">>
LongNoSentence == <<"LongClause", "SP", "LongClause">>
ExactlyLimit == <<"LongClause", ".", "SP", "MediumClause">>

FormatTexts ==
    {PlainReview, TwoParas, LongPara, LongThenBreak, LongNoSentence, ExactlyLimit}

\* The run of either flow at the call of its formatter, every file of the
\* list having been answered at the first request with one of the texts
FormatInit ==
    /\ entry \in EntryPoints
    /\ env \in Environments
    /\ env.OPENAI_API_KEY /\ env.GITHUB_TOKEN /\ env.PR_NUMBER /\ env.PR_SHAS
    /\ env.GITHUB_REPOSITORY = OwnerAndName
    /\ ~env.USE_GITHUB_ACTION /\ ~env.USE_MCP
    /\ client = NewClient
    /\ server = NoServer
    /\ pc = "format"
    /\ flow = (IF entry = "main.py" THEN "direct" ELSE "action")
    /\ \E n \in 1..MaxFiles : \E t \in [1..n -> FormatTexts] :
          /\ files = FileList(n)
          /\ idx = n + 1
          /\ reviews = [i \in 1..n |-> Result(PathOf(i), t[i])]
          /\ returns = [i \in 1..n |-> Return(PathOf(i), FALSE, FALSE, t[i])]
          /\ rev = ReviewAttempt(NewReview, Response("ok", t[n], ""))
          /\ calls = n
    /\ report = <<>>
    /\ outcome = NoOutcome
    /\ exitCode = -1
    /\ fetchCalls = 1
    /\ forgeRequests = (IF entry = "main.py" THEN 1 ELSE 0)
    /\ sinkCalls = <<>>
    /\ fetch = "listed"

\* The formatter of the flow called a second time with the arguments of the
\* first call
FormatAgain ==
    /\ pc = "deliver"
    /\ report' = (IF flow = "action"
                  THEN format_review_report(reviews, Len(files), env.DETAILED_REVIEWS)
                  ELSE format_review(reviews, env.DETAILED_REVIEWS))
    /\ pc' = "formatted_again"
    /\ UNCHANGED <<entry, env, client, server, flow, files, idx, reviews, rev, outcome, exitCode,
                   calls, fetchCalls, forgeRequests, sinkCalls, fetch, returns>>

FormatNext ==
    \/ Format
    \/ DirectFormat
    \/ FormatAgain

FormatSpec == FormatInit /\ [][FormatNext]_vars

\* --------------------------------------------------------------- claims
\* The kinds of answer review() retries on
TransientAnswers == {"conn", "other", "ok_none"}
\* The kinds of answer review() returns on at once
FinalErrorAnswers == {"auth", "notfound", "ratelimit"}

HasTok(text, tok) == \E i \in 1..Len(text) : text[i] = tok

\* C1: a call of review() never makes a 4th completion request; a call whose
\* every request failed transiently has returned only after exactly
\* max_retries (3) requests, and what it returned names the count 3 and ends
\* with the text of the last error; while fewer than 3 requests have failed
\* it has not returned.
C1_RetryBound ==
    /\ rev.calls <= max_retries
    /\ rev.last_kind \in TransientAnswers =>
         /\ rev.calls = rev.retry_count
         /\ rev.returned <=> rev.calls = max_retries
         /\ rev.returned =>
              /\ HasTok(rev.result, "3")
              /\ HasTok(rev.result, "tentativas:")
              /\ rev.result[Len(rev.result)] = rev.last_msg

C1_Witness ==
    /\ rev.returned
    /\ rev.last_kind = "conn"
    /\ rev.calls = 3
    /\ rev.last_msg = "Request timed out."

\* C2: an authentication, model-not-found or rate-limit answer ends the call
\* of review(): no further request of that call follows, the call has
\* returned the explanatory text of that error, and the number of requests
\* it made is the number of transient failures before it plus one.
C2_NoRetryClasses ==
    rev.last_kind \in FinalErrorAnswers =>
        /\ rev.returned
        /\ pc # "review"
        /\ rev.calls = rev.retry_count + 1
        /\ rev.result = (CASE rev.last_kind = "auth" -> AuthErrorText
                           [] rev.last_kind = "notfound" -> NotFoundErrorText
                           [] OTHER -> RateLimitErrorText)

C2_Witness ==
    /\ rev.last_kind = "notfound"
    /\ rev.retry_count = 2
    /\ rev.calls = 3
    /\ rev.returned

\* The count the header of a report states
HeaderStated(rep) == rep[2].text[3]

\* C3: whenever a report has been formatted, on either flow, the count its
\* header states is the length of the changed-file list, whatever the
\* per-file outcomes were.
C3_HeaderCountsFiles ==
    report # <<>> =>
        /\ report[2].t = "header"
        /\ HeaderStated(report) = NumStr(Len(files))

\* A report over two files of which only one left a result
C3_Witness ==
    /\ report # <<>>
    /\ Len(files) = 2
    /\ Len(reviews) = 1
    /\ \E i \in 1..2 : returns[i].raised
    /\ \E i \in 1..2 : returns[i].sentinel

\* The items of a report that are a file's section title or summary bullet
EntryItems(rep) == SelectSeq(rep, LAMBDA it : it.t \in {"section_title", "bullet"})

\* File i of the list has an entry in the body of the report
Appears(i) ==
    \E k \in 1..Len(EntryItems(report)) :
        /\ k <= Len(reviews)
        /\ reviews[k].file_path = files[i]
        /\ EntryItems(report)[k].file = BaseName(files[i])

\* C4: a file whose answer was a no-issues phrase (after trimming) has the
\* empty string as the result of review() and no section or bullet in the
\* report of the run.
C4_SentinelFiltered ==
    \A i \in 1..Len(returns) :
        returns[i].sentinel =>
            /\ returns[i].text = <<>>
            /\ report # <<>> => ~Appears(i)

\* C5: with the API key unset no run gets past its set-up (neither flow and
\* no server loop is entered): the File Change Source is never called, no
\* completion request and no forge request is sent, and a run that has
\* ended has ended with a non-zero exit code.
C5_MissingKeyFatal ==
    ~env.OPENAI_API_KEY =>
        /\ pc \in {"start", "run_mcp_server", "exited"}
        /\ fetchCalls = 0
        /\ calls = 0
        /\ forgeRequests = 0
        /\ sinkCalls = <<>>
        /\ outcome = NoOutcome
        /\ pc = "exited" => exitCode = 1

\* The key is missing where only the constructor checks it
C5_Witness ==
    /\ ~env.OPENAI_API_KEY
    /\ env.GITHUB_TOKEN
    /\ env.PR_NUMBER
    /\ entry = "github_action.py"
    /\ pc = "exited"

\* C6: with the forge token or the PR number unset, no completion request
\* and no forge request is sent, no flow reports success and the process
\* does not exit with code 0.
C6_MissingForgeConfigFatal ==
    (~env.GITHUB_TOKEN \/ ~env.PR_NUMBER) =>
        /\ calls = 0
        /\ forgeRequests = 0
        /\ ~outcome.success
        /\ exitCode # 0

\* C7: when post_review_comment returned false in process_review, the dict
\* process_review returns has success false and, as review_text, the
\* non-empty text that was handed to the sink.
C7_FailedDeliveryKeepsReport ==
    (flow = "action" /\ pc \in {"returned", "exited"}) =>
        \A k \in 1..Len(sinkCalls) :
            sinkCalls[k].result = "false" =>
                /\ outcome.type = "dict"
                /\ ~outcome.success
                /\ outcome.review_text # <<>>
                /\ outcome.review_text = sinkCalls[k].text

\* The forge answered the post with another status than 201
C7_Witness ==
    /\ flow = "action"
    /\ pc = "returned"
    /\ is_configured(env)
    /\ sinkCalls # <<>>
    /\ sinkCalls[1].result = "false"
    /\ Len(reviews) = 2

\* The run met a fatal condition: configuration is missing, an exception
\* ended the flow, or the comment could not be delivered
Fatal ==
    \/ ~MainChecksPass(env)
    \/ outcome.type # "none" /\ ~outcome.success
    \/ \E k \in 1..Len(sinkCalls) : sinkCalls[k].result # "true"

\* C8: a process that has exited with code 0 met no fatal condition.
C8_ExitCodeReflectsSuccess ==
    (pc = "exited" /\ exitCode = 0) => ~Fatal

\* C9: when obtaining the changed-file list failed, the flow does not
\* return success.
C9_FetchFailureFatal ==
    (fetch \in {"failed", "raised"} /\ outcome.type # "none") => ~outcome.success

\* The File Change Source returned an empty list to the flow
YieldedEmpty == fetch \in {"listed", "failed", "unconfigured"} /\ files = <<>>

RaisedFiles == {i \in 1..Len(returns) : returns[i].raised}

\* The result the loop kept for file i is the k-th of the list
KeptAs(i, k) == k \in 1..Len(reviews) /\ reviews[k] = Result(files[i], returns[i].text)

\* The loop went on after every file and the run formatted and delivered
LoopCompleted ==
    /\ (pc \in {"format", "deliver", "returned", "exited"} /\ files # <<>>) =>
          Len(returns) = Len(files)
    /\ (pc \in {"returned", "exited"} /\ files # <<>>) =>
          /\ report # <<>>
          /\ outcome.type # "none"
          /\ ShouldPost(env) => sinkCalls # <<>>

\* C11 as stated: an exception raised while reviewing a file leaves a result
\* for that file whose text is an error message that carries the file's
\* path; the loop goes on, every file of the list is handled and the run
\* formats and delivers.
C11_PerFileErrorTaggedWithPath ==
    /\ \A i \in RaisedFiles :
          /\ \E k \in 1..Len(reviews) : KeptAs(i, k)
          /\ Len(returns[i].text) >= 3
          /\ returns[i].text[1] = "Error reviewing file:"
          /\ \E j \in 1..Len(returns[i].text) :
                returns[i].text[j] = PathStr(files[i])
    /\ LoopCompleted

\* C11 as amended: an exception raised under the try of the loop of
\* process_changes leaves a result for that file whose file_path is the
\* file's path and whose text is "Error reviewing file:" followed by the
\* message of the exception, whatever that message holds; the loop goes on,
\* every file of the list is handled and the run formats and delivers. The
\* loop of run_code_review has no try of its own and nothing under it raises.
C11_PerFileErrorCaught ==
    /\ \A i \in RaisedFiles :
          /\ flow = "action"
          /\ returns[i].file_path = files[i]
          /\ \E k \in 1..Len(reviews) : KeptAs(i, k)
          /\ Len(returns[i].text) >= 3
          /\ SubSeq(returns[i].text, 1, 2) = <<"Error reviewing file:", "SP">>
          /\ SubSeq(returns[i].text, 3, Len(returns[i].text)) \in ShowErrors(files[i])
    /\ LoopCompleted

\* The first of two files raised, the second was reviewed by the provider,
\* and the run has delivered its report
C11_Witness ==
    /\ flow = "action"
    /\ Len(files) = 2
    /\ pc = "returned"
    /\ returns[1].raised
    /\ returns[1].text = <<"Error reviewing file:", "SP">> \o OtherShowError
    /\ ~returns[2].raised
    /\ returns[2].text = RealReview
    /\ sinkCalls # <<>>
    /\ sinkCalls[1].result = "true"

\* Position of a path in the changed-file list (the paths of a list differ)
PosOf(path) == CHOOSE i \in 1..Len(files) : files[i] = path

\* The items of a report that carry a result's text
BodyItems(rep) == SelectSeq(rep, LAMBDA it : it.t \in {"section_body", "bullet"})

\* The results are in list order, and so are the entries of the report
InListOrder ==
    /\ \A i \in 1..Len(returns) : returns[i].file_path = files[i]
    /\ \A k \in 1..Len(reviews) : \E i \in 1..Len(returns) : reviews[k].file_path = files[i]
    /\ \A k \in 1..(Len(reviews) - 1) :
          PosOf(reviews[k].file_path) < PosOf(reviews[k + 1].file_path)
    /\ report # <<>> =>
          LET entries == EntryItems(report)
              bodies == BodyItems(report)
          IN  /\ Len(entries) = Len(reviews)
              /\ Len(bodies) = Len(reviews)
              /\ \A k \in 1..Len(reviews) :
                    /\ entries[k].file = BaseName(reviews[k].file_path)
                    /\ bodies[k].text =
                          IF env.DETAILED_REVIEWS THEN reviews[k].review \o <<"NL">>
                          ELSE SummaryText(reviews[k].review)

\* A step that sends a completion request sends one, for the file at idx,
\* when every file before it has finished and none after it has started
RequestInTurn ==
    calls' # calls =>
        /\ calls' = calls + 1
        /\ pc = "review"
        /\ idx \in 1..Len(files)
        /\ Len(returns) = idx - 1
        /\ ~rev.returned
        /\ IF rev'.returned
           THEN /\ Len(returns') = idx
                /\ returns'[idx].file_path = files[idx]
                /\ idx' = idx + 1
           ELSE /\ returns' = returns
                /\ idx' = idx
                /\ pc' = "review"

\* C12: files are reviewed one after the other in list order: a completion
\* request is sent for the file at the loop's position only, while every
\* earlier file has finished (its retries included) and no later one has
\* begun; the results handed to the formatter and the entries of the report
\* are in the relative order of their files in the list.
C12_SequentialInOrder == []InListOrder /\ [][RequestInTurn]_vars

\* Two files, the first retried, both kept and reported in list order
C12_Witness ==
    /\ flow = "action"
    /\ pc = "returned"
    /\ Len(files) = 2
    /\ calls = 4
    /\ Len(reviews) = 2
    /\ reviews[1].review = PhraseThenText
    /\ reviews[2].review = RealReview
    /\ rev.calls = 1
    /\ report # <<>>

\* An exception reached the except clause of process_review: Repo(repo_path)
\* raised before the list was fetched, or the post of the report raised
ReachedTopLevelExcept ==
    \/ fetchCalls = 0
    \/ \E k \in 1..Len(sinkCalls) : sinkCalls[k].result = "raised"

\* C13: process_review always returns a dict with a non-empty review_text;
\* when an exception was raised under its try (opening the repository,
\* posting the report) the dict has success false and review_text is the
\* error document, which names the exception's message.
C13_ProcessReviewNeverRaises ==
    (flow = "action" /\ pc \in {"returned", "exited"}) =>
        /\ outcome.type = "dict"
        /\ outcome.review_text # <<>>
        /\ ReachedTopLevelExcept =>
              /\ ~outcome.success
              /\ Len(outcome.review_text) = 2
              /\ outcome.review_text[1].t = "error_title"
              /\ outcome.review_text[2].t = "error_body"
              /\ HasTok(outcome.review_text[2].text, "Error during review process:")
              /\ \/ HasTok(outcome.review_text[2].text, "repository not found")
                 \/ HasTok(outcome.review_text[2].text, "Cannot connect to host")

\* Opening the repository raised
C13_Witness ==
    /\ flow = "action"
    /\ pc = "returned"
    /\ fetchCalls = 0
    /\ outcome = Dict(FALSE, ErrorDoc("repository not found"))

\* C14: whenever the post of the rendered report failed in process_review,
\* by returning false or by raising, the dict process_review returns has
\* success false and, as review_text, the report that was handed to the
\* sink.
C14_DeliveryErrorKeepsReport ==
    (flow = "action" /\ pc \in {"returned", "exited"}) =>
        \A k \in 1..Len(sinkCalls) :
            sinkCalls[k].result \in {"false", "raised"} =>
                /\ ~outcome.success
                /\ sinkCalls[k].text = report
                /\ outcome.review_text = report

\* One of the four values post_review_comment needs is missing
ConfigValueMissing ==
    \/ ~env.GITHUB_TOKEN
    \/ repo_owner(env) = ""
    \/ repo_name(env) = ""
    \/ ~env.PR_NUMBER

\* C15: a call of post_review_comment made while the token, the owner, the
\* repository name or the PR number is missing has returned false and no
\* HTTP request was sent; a call made with all four present has sent
\* exactly one request.
C15_PostNeedsAllFour ==
    /\ forgeRequests <= Len(sinkCalls)
    /\ \A k \in 1..Len(sinkCalls) :
          IF ConfigValueMissing
          THEN sinkCalls[k].result = "false" /\ forgeRequests = 0
          ELSE forgeRequests = 1
    /\ pc = "posted" => Len(sinkCalls) = 1

\* The post was asked for with a token, a PR number and a repository name
\* but an empty owner
C15_Witness ==
    /\ pc = "posted"
    /\ env.GITHUB_TOKEN
    /\ env.PR_NUMBER
    /\ env.GITHUB_REPOSITORY = <<"", "magic-pipe">>
    /\ sinkCalls = <<SinkCall(report, "false")>>
    /\ forgeRequests = 0

\* The bullets of the summary section of a report
Bullets(rep) == SelectSeq(rep, LAMBDA it : it.t = "bullet")

\* The files whose review came to a text other than the no-issues sentinel
FilesWithContent == {i \in 1..Len(returns) : ~returns[i].sentinel}

\* Every file of the run produced the sentinel or a text that is not blank
SentinelOrContent ==
    \A i \in 1..Len(returns) : returns[i].sentinel \/ Truthy(Strip(returns[i].text))

\* C16: in summary mode, when every file produced either the no-issues
\* sentinel or real review text, the header of the report states the number
\* N of files and the summary section has exactly K bullets, K the number
\* of files with real text, in either flow.
C16_SummaryListsContentOnly ==
    (report # <<>> /\ ~env.DETAILED_REVIEWS /\ SentinelOrContent) =>
        /\ HeaderStated(report) = NumStr(Len(files))
        /\ Len(Bullets(report)) = Cardinality(FilesWithContent)
        /\ \A k \in 1..Len(Bullets(report)) : Bullets(report)[k].text # <<>>

\* The contents the provider may answer with that are, trimmed, no phrase of
\* the list
NonMemberContents == {c \in ProviderContents : Strip(c) \notin NoIssuesPhrases}

\* C17: a provider answer whose trimmed text is not in the list of no-issues
\* phrases (another casing, a phrase followed by text, whitespace only) is
\* returned by review() unchanged at the first request, and the file it
\* was given for has an entry in the report of the run.
C17_NonMemberIsReviewBody ==
    /\ \A c \in NonMemberContents :
          LET r == ReviewAttempt(NewReview, Response("ok", c, ""))
          IN  r.returned /\ r.result = c
    /\ \A i \in 1..Len(returns) :
          (~returns[i].raised /\ returns[i].text \in NonMemberContents) =>
              (report # <<>> => Appears(i))

\* The lines of the recommendations section of a report
RecSection(rep) == SelectSeq(rep, LAMBDA it : it.t \in {"recommendation", "default_rec"})

\* C18: the recommendations section of a report does not depend on the
\* review texts: it is the section the same formatter gives for a list of
\* no results, whatever the results of the run hold.
C18_RecommendationsFixed ==
    report # <<>> =>
        RecSection(report) =
            IF flow = "action"
            THEN RecSection(format_review_report(<<>>, Len(files), env.DETAILED_REVIEWS))
            ELSE RecSection(format_review(<<>>, env.DETAILED_REVIEWS))

\* The section titles of a detailed report
SectionTitles(rep) == SelectSeq(rep, LAMBDA it : it.t = "section_title")

\* C19: a detailed report has one section per result, in result order, and
\* the title of a section identifies the path of its result: sections of
\* results with different paths have different titles.
C19_SectionsTitledByPath ==
    (report # <<>> /\ env.DETAILED_REVIEWS) =>
        /\ Len(SectionTitles(report)) = Len(reviews)
        /\ Len(BodyItems(report)) = Len(reviews)
        /\ \A k \in 1..Len(reviews) :
              BodyItems(report)[k].text = reviews[k].review \o <<"NL">>
        /\ \A k, l \in 1..Len(reviews) :
              reviews[k].file_path # reviews[l].file_path =>
                  SectionTitles(report)[k].file # SectionTitles(report)[l].file

\* The bullet text expected for each text, written out
ExpectedBullet(text) ==
    CASE text = PlainReview -> <<"Codigo bem estruturado", ".">>
      [] text = TwoParas -> <<"Codigo bem estruturado", ".">>
      [] text = LongPara -> <<"LongClause", ".">>
      [] text = LongThenBreak -> <<"LongClause", ".">>
      [] text = LongNoSentence -> <<"LongClause", "SP", "LongClause", ".">>
      [] text = ExactlyLimit -> <<"LongClause", ".", "SP", "MediumClause">>
      [] OTHER -> text

\* C20: a summary report has one bullet per result, in result order, each
\* under the base name of the result's path; the text of a bullet is the
\* first paragraph of the review text when that paragraph has at most 200
\* characters, and otherwise the part of the paragraph before its first
\* ". " followed by a full stop.
C20_SummaryBullets ==
    (report # <<>> /\ ~env.DETAILED_REVIEWS) =>
        /\ Len(Bullets(report)) = Len(reviews)
        /\ SectionTitles(report) = <<>>
        /\ \A k \in 1..Len(reviews) :
              LET para == FirstPara(reviews[k].review)
                  b == Bullets(report)[k]
              IN  /\ b.file = reviews[k].file_path[Len(reviews[k].file_path)]
                  /\ b.text = ExpectedBullet(reviews[k].review)
                  /\ TextLen(para) <= 200 => b.text = para
                  /\ TextLen(para) > 200 =>
                        /\ b.text = FirstSentence(para) \o <<".">>
                        /\ FirstPair(para, ".", "SP") > 0 => Len(b.text) < Len(para)

\* A long first paragraph cut to its first sentence, then a text of two
\* paragraphs cut to its first
C20_Witness ==
    /\ pc = "deliver"
    /\ ~env.DETAILED_REVIEWS
    /\ Len(reviews) = 2
    /\ reviews[1].review = LongThenBreak
    /\ reviews[2].review = ExactlyLimit
    /\ Len(Bullets(report)) = 2
    /\ Bullets(report)[1].text = <<"LongClause", ".">>
    /\ Bullets(report)[2].text = ExactlyLimit
    /\ Bullets(report)[2].file = "app.py"

\* A call of a formatter leaves the list it was given and the file list as
\* they were, and a second call with the same arguments returns what the
\* first returned
FormatStepPure ==
    /\ (pc = "format" /\ pc' = "deliver") =>
          /\ reviews' = reviews
          /\ files' = files
          /\ report' # <<>>
    /\ pc' = "formatted_again" =>
          /\ pc = "deliver"
          /\ reviews' = reviews
          /\ files' = files
          /\ report' = report

TransientResponses == {r \in ProviderResponses : r.kind \in TransientAnswers}

\* A call of review() given the provider's answers in turn
RECURSIVE RunReview(_, _)
RunReview(r, answers) ==
    IF answers = <<>> \/ r.returned THEN r
    ELSE RunReview(ReviewAttempt(r, Head(answers)), Tail(answers))

\* The first token of the text review() returns when its retries are spent
IsExhaustedText(text) == text # <<>> /\ text[1] = "Erro ao realizar revisao de codigo apos"

\* C22: when the requests 1..k-1 of a call of review() fail transiently and
\* request k (k <= 3) is answered, the call returns at request k: it has
\* made exactly k requests, it returns the content of answer k (the empty
\* string when that content, trimmed, is a no-issues phrase), not the text
\* for spent retries, and it makes no further request.
C22_SuccessAfterRetries ==
    /\ (pc = "review" /\ rev.calls = 0) =>
         \A k \in 1..3 :
           \A pre \in [1..(k - 1) -> TransientResponses], c \in ProviderContents :
             LET r == RunReview(rev, pre \o <<Response("ok", c, "")>>)
             IN  /\ r.returned
                 /\ r.calls = k
                 /\ r.retry_count = k - 1
                 /\ r.result = (IF Strip(c) \in NoIssuesPhrases THEN <<>> ELSE c)
                 /\ ~IsExhaustedText(r.result)
    /\ rev.last_kind = "ok" =>
          /\ rev.returned
          /\ pc # "review"
          /\ rev.calls = rev.retry_count + 1
          /\ rev.calls <= 3
          /\ \E c \in ProviderContents :
                rev.result = (IF Strip(c) \in NoIssuesPhrases THEN <<>> ELSE c)

\* The third request of a call was answered after two transient failures
C22_Witness ==
    /\ pc = "reviewed"
    /\ rev.last_kind = "ok"
    /\ rev.retry_count = 2
    /\ rev.calls = 3
    /\ rev.sleeps = 2
    /\ rev.result = RealReview

\* C23: in a run the sink is called at most once; when it has been called,
\* every file of the list has its final outcome, the report had been
\* formatted and is the text handed over; while a file is still to be
\* reviewed no call of the sink and no post to the forge has been made.
C23_DeliverOnceAfterAll ==
    /\ Len(sinkCalls) <= 1
    /\ sinkCalls # <<>> =>
          /\ pc \in {"returned", "exited"}
          /\ files # <<>>
          /\ Len(returns) = Len(files)
          /\ idx = Len(files) + 1
          /\ report # <<>>
          /\ sinkCalls[1].text = report
    /\ pc \in {"next_file", "review", "format"} =>
          /\ sinkCalls = <<>>
          /\ forgeRequests = (IF flow = "direct" THEN 1 ELSE 0)
    /\ (pc \in {"next_file", "review"}) => (Len(returns) < Len(files) /\ report = <<>>)

\* The comment was posted after the second of two files was reviewed
C23_Witness ==
    /\ flow = "direct"
    /\ pc = "returned"
    /\ Len(files) = 2
    /\ Len(returns) = 2
    /\ sinkCalls = <<SinkCall(report, "true")>>
    /\ forgeRequests = 2

\* The flows under the claim's assumption that every external call returns
\* or raises: a step that can be taken is eventually taken
LiveSpec == Init /\ [][Next]_vars /\ WF_vars(Next)

\* C24: a run that has obtained a list of N files eventually ends, with the
\* outcome of its flow and an exit code, and at no time has it sent more
\* than max_retries * N = 3N completion requests.
C24_TerminatesWithinBudget ==
    /\ [](calls <= 3 * Len(files))
    /\ (files # <<>>) ~> (pc = "exited" /\ outcome.type # "none" /\ exitCode \in {0, 1})

\* A run over two files ended after the six requests its budget allows
C24_Witness ==
    /\ pc = "exited"
    /\ Len(files) = 2
    /\ calls = 6
    /\ outcome.type # "none"

\* ------------------------------------------------------------------ C25
\* The budget of the call of review() in progress counts that call's own
\* attempts only: while it has not returned, every attempt it made failed
\* transiently and fewer than three were made, so one more is open; it
\* returns the retries-exhausted text only after three attempts of its own
PerCallBudget ==
    /\ rev.calls <= max_retries
    /\ rev.retry_count <= rev.calls
    /\ (~rev.returned => rev.retry_count = rev.calls /\ rev.calls < max_retries)
    /\ (rev.returned /\ IsExhaustedText(rev.result)
          => rev.calls = max_retries /\ rev.retry_count = max_retries)
    /\ (rev.returned /\ ~IsExhaustedText(rev.result)
          => rev.retry_count = rev.calls - 1)

\* C25: the completion client keeps no state between calls. review() leaves
\* the client's model, max_retries and retry_delay as the constructor set
\* them, and the retry budget is per call: whatever number of attempts and
\* failures the earlier calls on the same client consumed, the next call has
\* up to 3 attempts of its own.
C25_ClientStateless ==
    /\ [](client = NewClient /\ client.max_retries = 3 /\ client.retry_delay = 5)
    /\ [][client' = client]_vars
    /\ []PerCallBudget

\* Two calls in a row on one client, each of which used all three attempts
C25_Witness ==
    /\ Len(returns) = 2
    /\ calls = 6
    /\ rev.returned /\ rev.calls = 3
    /\ IsExhaustedText(returns[1].text)
    /\ IsExhaustedText(returns[2].text)
    /\ client = NewClient

\* ------------------------------------------------------------------ C26
\* A text that is a string: it is not the None content and holds no part of it
IsString(text) == text # NoneContent /\ ~HasTok(text, NoneContent[1])

\* C26: the text of every result of review() is a string, never None:
\* review() returns a string and raises nothing to its caller whatever the
\* provider does. An answer whose message content is None is not returned:
\* it counts as a failed attempt of the retry loop (retry_count grows and
\* last_error is the AttributeError of content.strip()), and a call that
\* gets nothing else returns the text for spent retries after 3 attempts.
C26_ResultAlwaysString ==
    /\ \A i \in 1..Len(returns) : ~returns[i].raised /\ IsString(returns[i].text)
    /\ (rev.returned => IsString(rev.result))
    /\ (rev.last_kind = "ok_none"
          => /\ rev.retry_count >= 1
             /\ rev.last_error = NoneStripError
             /\ rev.returned = (rev.calls = max_retries)
             /\ (rev.returned => rev.result = ExhaustedText(NoneStripError)))

\* A call answered three times with a None content has returned
C26_Witness ==
    /\ rev.returned
    /\ rev.last_kind = "ok_none"
    /\ rev.calls = 3
    /\ Len(returns) >= 1
    /\ returns[Len(returns)].text = ExhaustedText(NoneStripError)

\* ------------------------------------------------------------------ C27
\* The calls of review() that have returned
ReturnedCalls == Cardinality({i \in 1..Len(returns) : ~returns[i].raised})

\* C27: the loop consumes each file of the list once. The outcomes recorded
\* so far are those of the files before the loop's position, one each and in
\* list order; review() has been called once for each file whose content was
\* read (the completion requests made fit that many calls of at most 3
\* requests) and not at all for a file whose content could not be read; and
\* the list handed to the formatter holds at most one result per file.
C27_EachFileOnce ==
    /\ Len(returns) <= Len(files)
    /\ \A i \in 1..Len(returns) :
          /\ returns[i].file_path = files[i]
          /\ returns[i].raised => flow = "action"
    /\ (pc \in {"next_file", "review"} => Len(returns) = idx - 1)
    /\ LET inCall == IF pc = "review" THEN 1 ELSE 0
           inCallRequests == IF pc = "review" THEN rev.calls ELSE 0
       IN  /\ calls >= ReturnedCalls + (IF inCallRequests > 0 THEN 1 ELSE 0)
           /\ calls <= max_retries * ReturnedCalls + inCallRequests
           /\ ReturnedCalls + inCall <= Len(files)
    /\ Len(reviews) <= Len(returns)
    /\ \A k \in 1..Len(reviews) :
          /\ \E i \in 1..Len(returns) : reviews[k].file_path = files[i]
          /\ \A l \in 1..Len(reviews) :
                k # l => reviews[k].file_path # reviews[l].file_path

\* Two files went through the loop: the content of the first could not be
\* read, the second was reviewed; each left one result
C27_Witness ==
    /\ flow = "action"
    /\ pc = "format"
    /\ Len(files) = 2
    /\ Len(returns) = 2
    /\ returns[1].raised /\ ~returns[2].raised
    /\ calls >= 1
    /\ Len(reviews) = 2
    /\ reviews[1].file_path = files[1] /\ reviews[2].file_path = files[2]

\* ------------------------------------------------------------------ C28
\* File i of the list has an entry in the results of process_changes
Present(i) == \E k \in 1..Len(reviews) : reviews[k].file_path = files[i]

\* C28: in process_changes a file that went through the loop is missing from
\* the results exactly when the text of its review is empty or only
\* whitespace. A file whose review ended in an error (the text for a bad
\* key, an unavailable model, spent quota or spent retries, or the text made
\* from a caught exception) is in the results with that text.
C28_AbsentIffBlank ==
    flow = "action" =>
      /\ \A i \in 1..Len(returns) :
            /\ ~Present(i) <=> ~Truthy(Strip(returns[i].text))
            /\ Present(i) => \E k \in 1..Len(reviews) : KeptAs(i, k)
            /\ returns[i].raised =>
                  /\ Present(i)
                  /\ \E msg \in ShowErrors(files[i]) :
                        returns[i].text = ErrorResult(files[i], msg).review
            /\ IsExhaustedText(returns[i].text) => Present(i)
      /\ (rev.returned /\ rev.last_kind \notin {"ok", "none"} /\ returns # <<>>
            /\ ~returns[Len(returns)].raised)
           => /\ returns[Len(returns)].text = rev.result
              /\ rev.result \in {AuthErrorText, NotFoundErrorText, RateLimitErrorText}
                    \/ IsExhaustedText(rev.result)
              /\ Truthy(Strip(rev.result))
              /\ Present(Len(returns))

\* Of two files the first got a no-issues answer and is missing from the
\* results; the review of the second spent its retries and is in them
C28_Witness ==
    /\ flow = "action"
    /\ pc = "format"
    /\ Len(files) = 2 /\ Len(returns) = 2
    /\ returns[1].sentinel /\ returns[1].text = <<>>
    /\ IsExhaustedText(returns[2].text)
    /\ Len(reviews) = 1
    /\ reviews[1] = Result(files[2], returns[2].text)

\* ------------------------------------------------------------------ C29
\* The sleeps a call of review() has taken, from its attempts so far
SleepCount ==
    /\ rev.sleeps = (IF rev.retry_count < max_retries
                     THEN rev.retry_count ELSE max_retries - 1)
    /\ (~rev.returned => rev.sleeps = rev.calls)
    /\ (rev.returned => rev.sleeps = rev.calls - 1)
    /\ (rev.returned /\ IsExhaustedText(rev.result)
          => rev.sleeps = max_retries - 1 /\ rev.calls = max_retries)

\* A request of review(): it is followed by one sleep when it failed
\* transiently and was attempt 1 or 2, and by none otherwise
SleepStep ==
    rev'.calls = rev.calls + 1 =>
        rev'.sleeps = rev.sleeps +
            (IF rev'.last_kind \in {"conn", "other", "ok_none"} /\ rev'.calls < max_retries
             THEN 1 ELSE 0)

\* C29: in a call of review() a backoff sleep is taken only between two
\* attempts. A transient failure on attempt 1 or 2 is followed by exactly
\* one sleep before the next attempt, the failure on attempt 3 by none, so
\* a call that spent its retries slept exactly 2 times; the attempt that
\* ends the call (a success, a bad key, an unavailable model, spent quota)
\* is followed by no sleep.
C29_SleepOnlyBetweenAttempts == []SleepCount /\ [][SleepStep]_vars

\* A call whose three attempts failed transiently has returned after 2 sleeps
C29_Witness ==
    /\ rev.returned
    /\ rev.calls = 3
    /\ rev.sleeps = 2
    /\ rev.last_kind \in {"conn", "other"}
    /\ IsExhaustedText(rev.result)

\* ------------------------------------------------- the MCP request loop
\* What read_request may hand to start(): nothing (a false value), or a
\* request naming one of the three registered functions or another one,
\* with or without the parameters the function reads, or a request whose
\* function_call is missing
Request(fn, has_call, has_params) ==
    [fn |-> fn, has_call |-> has_call, has_params |-> has_params, empty |-> FALSE]
Requests ==
    {Request(fn, TRUE, p) : fn \in {"review_code", "get_file_content", "get_file_diff"},
                            p \in BOOLEAN}
    \cup {Request("list_files", TRUE, TRUE), Request("", FALSE, FALSE)}

\* The provider's answers to one call of review() made by the server
ServerAnswerRuns ==
    { <<Response("ok", RealReview, "")>>,
      <<Response("ok", <<"No issues found", ".">>, "")>>,
      <<Response("conn", <<>>, "Connection error."), Response("auth", <<>>, "rejected")>>,
      <<Response("conn", <<>>, "Connection error."), Response("ok_none", NoneContent, ""),
        Response("other", <<>>, "Request timed out.")>> }

\* The content of the message the except clause of handle_completion returns
ErrorProcessing(msg) == <<"Error processing request:", "SP">> \o msg
\* The content of the message the except clause of start() writes
ServerError(msg) == <<"Server error:", "SP", msg>>
RepoNotInitialized == <<"Error: Repository not initialized">>
NotImplemented(fn) == <<"Function", "SP", fn, "SP", "not implemented">>
FileContent == <<"def main():", "NL", "SP", "pass", "NL">>
FileDiff == <<"@@ -1 +1 @@", "NL", "-old", "NL", "+new", "NL">>
\* str(e) of what the transport may raise
TransportErrors == {"[Errno 32] Broken pipe"}

\* What handle_completion did: it returned the function's result, it
\* answered that the function or the repository is missing, or its except
\* clause caught an exception
Handled(how, content) == [how |-> how, content |-> content]

\* handle_completion(request): review is the finished call of review() (used
\* by review_code alone), git_ok says whether the git command returns
handle_completion(request, repo, review, git_ok) ==
    IF ~request.has_call
    THEN Handled("raised", ErrorProcessing(<<"'NoneType' object has no attribute 'name'">>))
    ELSE IF request.fn = "review_code"
    THEN IF ~request.has_params
         THEN Handled("raised", ErrorProcessing(<<"'file_path'">>))
         ELSE Handled("returned", review.result)
    ELSE IF request.fn = "get_file_content"
    THEN IF ~repo THEN Handled("no_repo", RepoNotInitialized)
         ELSE IF ~request.has_params
         THEN Handled("raised", ErrorProcessing(<<"'file_path'">>))
         ELSE IF ~git_ok
         THEN Handled("raised", ErrorProcessing(
                  <<"Cmd('git') failed due to: exit code(128)", "NL", "cmdline:", "SP",
                    "git show", "SP", "HEAD:src/app.py">>))
         ELSE Handled("returned", FileContent)
    ELSE IF request.fn = "get_file_diff"
    THEN IF ~repo THEN Handled("no_repo", RepoNotInitialized)
         ELSE IF ~request.has_params
         THEN Handled("raised", ErrorProcessing(<<"'file_path'">>))
         ELSE IF ~git_ok
         THEN Handled("raised", ErrorProcessing(
                  <<"Cmd('git') failed due to: exit code(128)", "NL", "cmdline:", "SP",
                    "git diff", "SP", "BASE", "SP", "HEAD", "SP", "--", "SP", "src/app.py">>))
         ELSE Handled("returned", FileDiff)
    ELSE Handled("unknown", NotImplemented(request.fn))

\* A response written: req is the number of the request it answers (0 when
\* none had been read in the pass)
Written(req, content) == [req |-> req, content |-> content]

\* A server about to enter the loop of start(): run_mcp_server opens the
\* repository first, a server started without initialize_repo has none
ServerInit ==
    /\ entry = "github_action.py"
    /\ env \in Environments
    /\ env.OPENAI_API_KEY /\ env.GITHUB_TOKEN /\ env.PR_NUMBER /\ env.PR_SHAS
    /\ env.GITHUB_REPOSITORY = OwnerAndName
    /\ ~env.USE_GITHUB_ACTION /\ env.USE_MCP /\ ~env.DETAILED_REVIEWS
    /\ client = NewClient
    /\ \E repo \in BOOLEAN : server = NewServer(repo)
    /\ pc = "serving"
    /\ flow = "mcp"
    /\ files = <<>>
    /\ idx = 0
    /\ reviews = <<>>
    /\ rev = NewReview
    /\ report = <<>>
    /\ outcome = NoOutcome
    /\ exitCode = -1
    /\ calls = 0
    /\ fetchCalls = 0
    /\ forgeRequests = 0
    /\ sinkCalls = <<>>
    /\ fetch = "none"
    /\ returns = <<>>

\* request = await self.read_request(); if not request: continue
ReadRequest ==
    /\ pc = "serving"
    /\ server.reads + server.empties + server.readFails < MaxPasses
    /\ \/ \E msg \in TransportErrors :
            /\ server' = [server EXCEPT !.request = NoRequest, !.readFails = @ + 1,
                                        !.response = ServerError(msg), !.writeFails = 0]
            /\ pc' = "error_writing"
       \/ /\ server' = [server EXCEPT !.request = NoRequest, !.empties = @ + 1,
                                      !.writeFails = 0]
          /\ pc' = "serving"
       \/ \E request \in Requests :
            /\ server' = [server EXCEPT !.request = request, !.reads = @ + 1,
                                        !.writeFails = 0]
            /\ pc' = "handling"
    /\ UNCHANGED <<entry, env, client, flow, files, idx, reviews, rev, report, outcome,
                   exitCode, calls, fetchCalls, forgeRequests, sinkCalls, fetch,
                   returns>>

\* response = await self.handle_completion(request)
HandleCompletion ==
    /\ pc = "handling"
    /\ \E answers \in ServerAnswerRuns, git_ok \in BOOLEAN :
         LET calling == server.request.has_call /\ server.request.fn = "review_code"
                          /\ server.request.has_params
             review == IF calling THEN RunReview(NewReview, answers) ELSE rev
             h == handle_completion(server.request, server.repo, review, git_ok)
         IN  /\ rev' = review
             /\ calls' = IF calling THEN calls + review.calls ELSE calls
             /\ server' = [server EXCEPT !.handled = Append(@, h),
                                         !.response = h.content]
    /\ pc' = "writing"
    /\ UNCHANGED <<entry, env, client, flow, files, idx, reviews, report, outcome,
                   exitCode, fetchCalls, forgeRequests, sinkCalls, fetch, returns>>

\* await self.write_response(response), which writes or raises
WriteResponseTwice ==
    /\ pc = "writing"
    /\ server' = [server EXCEPT
                    !.written = @ \o << Written(server.reads, server.response),
                                        Written(server.reads, server.response) >>,
                    !.request = NoRequest]
    /\ pc' = "serving"
    /\ UNCHANGED <<entry, env, client, flow, files, idx, reviews, rev, report, outcome,
                   exitCode, calls, fetchCalls, forgeRequests, sinkCalls, fetch,
                   returns>>
WriteResponse ==
    /\ pc = "writing"
    /\ \/ /\ server' = [server EXCEPT
                          !.written = Append(@, Written(server.reads, server.response)),
                          !.request = NoRequest]
          /\ pc' = "serving"
       \/ \E msg \in TransportErrors :
            /\ server' = [server EXCEPT !.response = ServerError(msg),
                                        !.writeFails = @ + 1]
            /\ pc' = "error_writing"
    /\ UNCHANGED <<entry, env, client, flow, files, idx, reviews, rev, report, outcome,
                   exitCode, calls, fetchCalls, forgeRequests, sinkCalls, fetch,
                   returns>>

\* await self.write_response(error_response) in the except clause of
\* start(): when it raises, the exception leaves start() and run_mcp_server
\* ends the process with sys.exit(1)
WriteErrorResponse ==
    /\ pc = "error_writing"
    /\ \/ /\ server' = [server EXCEPT
                          !.written = Append(@,
                              Written(IF server.request = NoRequest THEN 0 ELSE server.reads,
                                      server.response)),
                          !.request = NoRequest]
          /\ pc' = "serving"
          /\ UNCHANGED exitCode
       \/ /\ server' = [server EXCEPT !.writeFails = @ + 1]
          /\ Exit(1)
    /\ UNCHANGED <<entry, env, client, flow, files, idx, reviews, rev, report, outcome,
                   calls, fetchCalls, forgeRequests, sinkCalls, fetch, returns>>

ServerNext ==
    \/ ReadRequest
    \/ HandleCompletion
    \/ WriteResponse
    \/ WriteErrorResponse

ServerSpec == ServerInit /\ [][ServerNext]_vars

\* ------------------------------------------------------------------ C30
\* The responses written in answer to request j (0: to no request)
ResponsesTo(j) == Cardinality({k \in 1..Len(server.written) : server.written[k].req = j})

\* The pass of the loop that read request j is over
Served(j) == j < server.reads \/ (j = server.reads /\ pc \in {"serving", "exited"})

\* What handle_completion made of every request: an exception under its try
\* became the 'Error processing request' message, a missing repository and
\* an unregistered function their own messages, and nothing was raised to
\* start()
HandlerErrorsAnswered ==
    /\ Len(server.handled) = server.reads - (IF pc = "handling" THEN 1 ELSE 0)
    /\ \A j \in 1..Len(server.handled) :
          LET h == server.handled[j]
          IN  /\ h.how = "raised" =>
                    Len(h.content) >= 3 /\ SubSeq(h.content, 1, 2) = ErrorProcessing(<<>>)
              /\ h.how = "no_repo" => h.content = RepoNotInitialized /\ ~server.repo
              /\ h.how = "unknown" => h.content = NotImplemented("list_files")
              /\ (pc = "writing" /\ j = server.reads) => server.response = h.content

\* C30 as stated: every non-empty request read gets exactly one response,
\* an empty request none, and the loop of start() is never left
C30_OneResponsePerRequest ==
    /\ \A j \in 1..server.reads : Served(j) => ResponsesTo(j) = 1
    /\ ResponsesTo(0) <= server.readFails
    /\ Len(server.written) <= server.reads + server.readFails
    /\ HandlerErrorsAnswered
    /\ pc # "exited"

\* C30, amended: a request read gets at most one response, and exactly one
\* unless the writes of its pass raised: when write_response raises on the
\* response the except clause of start() writes a 'Server error' message in
\* its place, and when that write raises too the exception leaves start()
\* and the process exits with code 1. An empty request gets no response. An
\* exception under handle_completion is answered with an error message and
\* does not end the loop: the loop ends only on a write that raised in the
\* except clause.
C30_OneResponseUnlessWriteFails ==
    /\ \A j \in 1..server.reads :
          /\ ResponsesTo(j) <= 1
          /\ Served(j) =>
                \/ ResponsesTo(j) = 1
                \/ j = server.reads /\ pc = "exited" /\ server.writeFails = 2
    /\ \A k \in 1..Len(server.written) :
          LET w == server.written[k]
          IN  IF w.req = 0
              THEN \E msg \in TransportErrors : w.content = ServerError(msg)
              ELSE \/ w.content = server.handled[w.req].content
                   \/ \E msg \in TransportErrors : w.content = ServerError(msg)
    /\ ResponsesTo(0) <= server.readFails
    /\ Len(server.written) <= server.reads + server.readFails
    /\ HandlerErrorsAnswered
    /\ (pc = "exited" =>
          /\ exitCode = 1
          /\ server.writeFails = (IF server.request = NoRequest THEN 1 ELSE 2))
    /\ (pc \in {"handling", "writing"} => server.writeFails = 0)

\* A request whose handling raised was answered with the error message and
\* the loop went on; the write of the response to the second request raised
\* and the 'Server error' message was written in its place
C30_Witness ==
    /\ pc = "serving"
    /\ server.reads = 2
    /\ Len(server.handled) = 2
    /\ server.handled[1].how = "raised"
    /\ server.handled[2].how = "returned"
    /\ server.writeFails = 1
    /\ \E msg \in TransportErrors :
          server.written = << Written(1, server.handled[1].content),
                              Written(2, ServerError(msg)) >>

====
